---- MODULE Spec2Model ----
(***************************************************************************)
(* Model of the code-brick CLI commands save, import, export, clean and    *)
(* init (src/src/commands/clean.ts, export.ts, init.ts) over the template  *)
(* registry (store.json), the template storage directories                 *)
(* (templates/<name>/ with brick.json) and the archive files in the        *)
(* working directory.                                                      *)
(*                                                                         *)
(* A path is a sequence of path components; a directory tree is a set of   *)
(* entries [path, content]; a file content is a record tagged by kind:     *)
(* "text" (a sequence of lines) or "json" (a parsed metadata object).      *)
(* tags and version are carried through unchanged by every command and     *)
(* are left out of the records.                                            *)
(***************************************************************************)
EXTENDS Integers, Sequences, FiniteSets, TLC

\* Number of command invocations explored; each invocation reads the clock
\* (new Date() / Date.now()) once and the clock advances by one per invocation.
MaxClock == 2

-----------------------------------------------------------------------------
(* Universe of names *)

\* Template names the user can type; all match [A-Za-z0-9_-]+.
TemplateNames == {"t1", "t2", "rem"}

\* A name with a space in it, and every name that can reach the commands.
BadName == "b d"
AllNames == TemplateNames \cup {BadName}

\* UTF-16 code units of the names.
NameCode(n) ==
  CASE n = "t1"  -> <<116, 49>>
    [] n = "t2"  -> <<116, 50>>
    [] n = "rem" -> <<114, 101, 109>>
    [] n = "b d" -> <<98, 32, 100>>
    [] OTHER     -> <<>>

\* One character of the class [a-z0-9-_] under the i flag.
IsNameChar(c) ==
  \/ c \in 48..57
  \/ c \in 65..90
  \/ c \in 97..122
  \/ c = 45
  \/ c = 95

\* /^[a-z0-9-_]+$/i.test(value)
MatchesNamePattern(n) ==
  /\ NameCode(n) # <<>>
  /\ \A i \in 1..Len(NameCode(n)) : IsNameChar(NameCode(n)[i])

\* "none" stands for undefined / null / an option that was not given.
None == "none"

\* UTF-16 code units of the file and directory names that occur.
Code(n) ==
  CASE n = "a.ts"         -> <<97, 46, 116, 115>>
    [] n = "b.ts"         -> <<98, 46, 116, 115>>
    [] n = "api"          -> <<97, 112, 105>>
    [] n = "brick.json"   -> <<98, 114, 105, 99, 107, 46, 106, 115, 111, 110>>
    [] n = ".env"         -> <<46, 101, 110, 118>>
    [] n = "node_modules" -> <<110, 111, 100, 101, 95, 109, 111, 100, 117, 108, 101, 115>>
    [] n = "template"     -> <<116, 101, 109, 112, 108, 97, 116, 101>>
    [] n = "__pycache__"  -> <<95, 95, 112, 121, 99, 97, 99, 104, 101, 95, 95>>
    [] n = ".git"         -> <<46, 103, 105, 116>>
    [] OTHER              -> <<63>>

\* The code unit of "/" (path.sep on POSIX) and of ".".
Slash == 47
Dot == 46

\* entry.name.startsWith(".")
StartsWithDot(n) == Code(n)[1] = Dot

\* path.extname(file).toLowerCase()
ExtName(n) ==
  CASE n \in {"a.ts", "b.ts"} -> ".ts"
    [] n = "brick.json"       -> ".json"
    [] OTHER                  -> ""

\* The string of a relative path: components joined by "/".
RECURSIVE PathString(_)
PathString(p) ==
  IF p = <<>> THEN <<>>
  ELSE IF Len(p) = 1 THEN Code(p[1])
  ELSE Code(p[1]) \o <<Slash>> \o PathString(Tail(p))

\* JavaScript's default comparison of strings: by UTF-16 code units,
\* a proper prefix first (Array.prototype.sort without a comparator).
RECURSIVE StrLess(_, _)
StrLess(s, t) ==
  IF t = <<>> THEN FALSE
  ELSE IF s = <<>> THEN TRUE
  ELSE IF s[1] # t[1] THEN s[1] < t[1]
  ELSE StrLess(Tail(s), Tail(t))

PathLess(p, q) == StrLess(PathString(p), PathString(q))

\* files.sort(): the paths of S in ascending string order.
RECURSIVE SortPaths(_)
SortPaths(S) ==
  IF S = {} THEN <<>>
  ELSE LET m == CHOOSE x \in S : \A y \in S \ {x} : PathLess(x, y)
       IN <<m>> \o SortPaths(S \ {m})

Range(s) == {s[i] : i \in 1..Len(s)}

\* Every ordering without repetition of the elements of S.
RECURSIVE Perms(_)
Perms(S) ==
  IF S = {} THEN {<<>>}
  ELSE UNION {{<<x>> \o r : r \in Perms(S \ {x})} : x \in S}


-----------------------------------------------------------------------------
(* File contents and directory trees *)

Text(lines) == [kind |-> "text", lines |-> lines]
Json(md) == [kind |-> "json", md |-> md]

\* The lines that occur in source files.
LocalImportLine == "import { x } from './x';"
PkgImportLine == "import y from 'pkg';"
CodeLine == "const v = 1;"

BrickJson == <<"brick.json">>

File(path, content) == [path |-> path, content |-> content]

Paths(tree) == {e.path : e \in tree}

HasFile(tree, path) == path \in Paths(tree)

ContentAt(tree, path) == (CHOOSE e \in tree : e.path = path).content

\* Writing a file creates it or replaces the file at that path.
WriteFile(tree, path, content) ==
  {e \in tree : e.path # path} \cup {File(path, content)}

\* The user's directories that save can be pointed at. "nodir" does not
\* exist and "afile" is a regular file.
SourcePaths == {"proj", "misc", "hidden", "nodir", "afile"}

SourceTree(src) ==
  CASE src = "proj" ->
         { File(<<"b.ts">>, Text(<<LocalImportLine, CodeLine>>)),
           File(<<"api", "a.ts">>, Text(<<PkgImportLine, CodeLine>>)) }
    [] src = "misc" ->
         { File(<<"b.ts">>, Text(<<CodeLine>>)),
           File(<<"brick.json">>, Text(<<CodeLine>>)),
           File(<<".env">>, Text(<<CodeLine>>)) }
    [] src = "hidden" ->
         { File(<<".env">>, Text(<<CodeLine>>)) }
    [] OTHER -> {}

\* fs.pathExists(resolvedPath)
SourceExists(src) == src # "nodir"

\* (await fs.stat(resolvedPath)).isDirectory()
SourceIsDirectory(src) == src \in {"proj", "misc", "hidden"}

-----------------------------------------------------------------------------
(* Choosing the files of a save *)

\* fs.readdir(dir, {withFileTypes: true}): the entries directly in dir.
ReadDir(tree, dir) ==
  { [name |-> p[Len(dir) + 1], isDirectory |-> Len(p) > Len(dir) + 1] :
      p \in {q \in Paths(tree) :
               /\ Len(q) > Len(dir)
               /\ SubSeq(q, 1, Len(dir)) = dir} }

\* Mutant of IsIgnoredDirName: only hidden directories are skipped.
IsIgnoredDirName_dotOnly(n) == StartsWithDot(n)

IsIgnoredDirName(n) ==
  StartsWithDot(n) \/ n = "node_modules" \/ n = "__pycache__"

IsListedFileName(n) == ~StartsWithDot(n) /\ n # "brick.json"

RECURSIVE WalkFiles(_, _)
WalkFiles(tree, dir) ==
  LET entries == ReadDir(tree, dir)
      here == { dir \o <<e.name>> :
                  e \in {x \in entries :
                           ~x.isDirectory /\ IsListedFileName(x.name)} }
      below == UNION { Range(WalkFiles(tree, dir \o <<e.name>>)) :
                  e \in {x \in entries :
                           x.isDirectory /\ ~IsIgnoredDirName(x.name)} }
  IN SortPaths(here \cup below)

getFilesRecursive(tree) == WalkFiles(tree, <<>>)

\* The glob patterns the user passes to --include / --exclude.
IncludePatterns == {"**/*"}
ExcludePatterns == {"api/**"}

\* fast-glob's match of one pattern against a relative path with dot: false:
\* no component of a matched path starts with a dot.
GlobMatches(pattern, p) ==
  /\ \A i \in 1..Len(p) : ~StartsWithDot(p[i])
  /\ CASE pattern = "**/*"   -> TRUE
       [] pattern = "api/**" -> Len(p) > 1 /\ p[1] = "api"
       [] OTHER              -> FALSE

\* The set of paths fg(patterns, {cwd, dot: false, ignore}) returns.
GlobSet(tree, pattern, ignore) ==
  { p \in Paths(tree) :
      /\ GlobMatches(pattern, p)
      /\ (ignore = None \/ ~GlobMatches(ignore, p)) }

\* fast-glob returns its matches in no specified order: any ordering of
\* the matched set is a possible result.
GlobResults(tree, pattern, ignore) == Perms(GlobSet(tree, pattern, ignore))

\* files.filter((f) => !excludeSet.has(f))
RECURSIVE FilterOut(_, _)
FilterOut(files, excluded) ==
  IF files = <<>> THEN <<>>
  ELSE IF files[1] \in excluded THEN FilterOut(Tail(files), excluded)
  ELSE <<files[1]>> \o FilterOut(Tail(files), excluded)

\* The possible values of `files` in saveCommand.
SelectedFiles(tree, include, exclude) ==
  IF include # None
  THEN GlobResults(tree, include, exclude)
  ELSE IF exclude # None
       THEN { FilterOut(getFilesRecursive(tree), GlobSet(tree, exclude, None)) }
       ELSE { getFilesRecursive(tree) }

-----------------------------------------------------------------------------
(* Storage layer (lib/storage): registry, metadata store, storage paths *)

\* The registry (store.json "templates") is a JSON object: a sequence of
\* [name, entry] in insertion order, at most one per name.
RegistryNames(reg) == {reg[i].name : i \in 1..Len(reg)}

NoEntry == [type |-> None]

\* The storage directory of a template that has none.
NoDir == [exists |-> FALSE, files |-> {}]

\* loadTemplateMetadata's answer when brick.json is missing or unparsable.
NullMetadata == [null |-> TRUE]

templateExists(reg, name) == name \in RegistryNames(reg)

getTemplate(reg, name) ==
  IF name \in RegistryNames(reg)
  THEN reg[CHOOSE i \in 1..Len(reg) : reg[i].name = name].entry
  ELSE NoEntry

\* A selector is what the user typed: a name or a 1-based index.
ByName(n) == [kind |-> "name", name |-> n, index |-> 0]
ByIndex(i) == [kind |-> "index", name |-> None, index |-> i]

resolveTemplateName(reg, sel) ==
  IF sel.kind = "index"
  THEN IF sel.index \in 1..Len(reg) THEN reg[sel.index].name ELSE None
  ELSE IF sel.name \in RegistryNames(reg) THEN sel.name ELSE None

\* Absolute path of templates/<name> under the root directory.
getTemplatePath(name) == <<"/", ".codebrick", "templates", name>>

loadTemplateMetadata(disk, name) ==
  IF /\ disk[name].exists
     /\ HasFile(disk[name].files, BrickJson)
     /\ ContentAt(disk[name].files, BrickJson).kind = "json"
  THEN ContentAt(disk[name].files, BrickJson).md
  ELSE NullMetadata

saveTemplateMetadata(disk, name, md) ==
  [disk EXCEPT ![name] =
     [exists |-> TRUE, files |-> WriteFile(@.files, BrickJson, Json(md))]]

addTemplateToStore(reg, name, entry) ==
  IF name \in RegistryNames(reg)
  THEN [i \in 1..Len(reg) |->
          IF reg[i].name = name THEN [name |-> name, entry |-> entry] ELSE reg[i]]
  ELSE Append(reg, [name |-> name, entry |-> entry])

\* Mutant of RemoveDir: the directory is left as it is.
RemoveDir_keeps(disk, name) == disk

\* fs.remove(dir)
RemoveDir(disk, name) == [disk EXCEPT ![name] = NoDir]

\* fs.ensureDir(dir)
EnsureDir(disk, name) == [disk EXCEPT ![name].exists = TRUE]

-----------------------------------------------------------------------------
(* What a command hands back *)

\* The state a command leaves behind (st), how it ended (outcome), the
\* prompts it showed with the user's answers in order (asked), the template
\* name it worked on (name) and the relative paths it copied into the
\* storage directory (copied).
Done(st, outcome, asked, name, copied) ==
  [st |-> st, outcome |-> outcome, asked |-> asked, name |-> name, copied |-> copied]

Ask(prompt, answer) == [prompt |-> prompt, answer |-> answer]

\* Mutant of Refused: only a cancel stops the command; "no" goes on.
Refused_cancelOnly(answer) == answer = "cancel"

\* p.isCancel(answer) || !answer
Refused(answer) == answer = "cancel" \/ answer = "no"

-----------------------------------------------------------------------------
(* brick save <name> [path] *)

\* detectDependencies(content, filename) for one file.
detectDependencies(content, path) ==
  IF content.kind = "text" /\ ExtName(path[Len(path)]) = ".ts"
  THEN {"pkg" : i \in {j \in 1..Len(content.lines) : content.lines[j] = PkgImportLine}}
  ELSE {}

DetectedDeps(tree, files) ==
  UNION { detectDependencies(ContentAt(tree, files[i]), files[i]) : i \in 1..Len(files) }

\* for (const file of files) { ensureDir; fs.copy(sourcefile, destFile) }
RECURSIVE CopyFiles(_, _, _)
CopyFiles(dest, srcTree, files) ==
  IF files = <<>> THEN dest
  ELSE CopyFiles(WriteFile(dest, files[1], ContentAt(srcTree, files[1])),
                 srcTree, Tail(files))

SaveMetadata(in, description, deps) ==
  [ name         |-> in.name,
    type         |-> "local",
    description  |-> description,
    createdAt    |-> in.now,
    updatedAt    |-> in.now,
    source       |-> [origin |-> "local", path |-> in.src],
    files        |-> in.files,
    dependencies |-> deps ]

SaveEntry(in, description) ==
  [ type        |-> "local",
    path        |-> <<"templates", in.name>>,
    description |-> description,
    createdAt   |-> in.now,
    updatedAt   |-> in.now ]

\* Mutant of SaveWriteSteps: the registry entry is written before brick.json.
SaveWriteSteps_registryFirst(st, in, description, deps) ==
  LET dir0   == EnsureDir(st.disk, in.name)[in.name].files
      copied == CopyFiles(dir0, in.tree, in.files)
      disk1  == [st.disk EXCEPT ![in.name] = [exists |-> TRUE, files |-> copied]]
      disk2  == saveTemplateMetadata(disk1, in.name,
                                     SaveMetadata(in, description, deps))
      reg2   == addTemplateToStore(st.registry, in.name, SaveEntry(in, description))
  IN << [st EXCEPT !.disk = disk1],
        [st EXCEPT !.disk = disk1, !.registry = reg2],
        [st EXCEPT !.disk = disk2, !.registry = reg2] >>

\* The states the store goes through in lines 556-608 when every copy
\* succeeds: after the copy loop (line 568), after saveTemplateMetadata
\* (line 596), after addTemplateToStore (line 608).
SaveWriteSteps(st, in, description, deps) ==
  LET dir0   == EnsureDir(st.disk, in.name)[in.name].files
      copied == CopyFiles(dir0, in.tree, in.files)
      disk1  == [st.disk EXCEPT ![in.name] = [exists |-> TRUE, files |-> copied]]
      disk2  == saveTemplateMetadata(disk1, in.name,
                                     SaveMetadata(in, description, deps))
      reg2   == addTemplateToStore(st.registry, in.name, SaveEntry(in, description))
  IN << [st EXCEPT !.disk = disk1],
        [st EXCEPT !.disk = disk2],
        [st EXCEPT !.disk = disk2, !.registry = reg2] >>

\* Lines 556-608: copy, write brick.json, write the registry entry. The
\* copy loop has no try/catch: when fs.copy rejects for the file at position
\* in.failAt (0: no copy fails) the command ends there, with the files
\* before it copied and nothing else written.
SaveWrite(st, in, asked, description, deps) ==
  LET dir0   == EnsureDir(st.disk, in.name)[in.name].files
      before == SubSeq(in.files, 1, in.failAt - 1)
  IN IF in.failAt \in 1..Len(in.files)
     THEN Done([st EXCEPT !.disk[in.name] =
                  [exists |-> TRUE, files |-> CopyFiles(dir0, in.tree, before)]],
               "copy_failed", asked, in.name, Range(before))
     ELSE Done(SaveWriteSteps(st, in, description, deps)[3],
               "ok", asked, in.name, Range(in.files))

\* Lines 535-549: the description, from the option or from the prompt.
SaveDescribe(st, in, asked, deps) ==
  IF in.description # None
  THEN SaveWrite(st, in, asked, in.description, deps)
  ELSE IF in.descInput = "cancel"
  THEN Done(st, "cancelled", Append(asked, Ask("description", "cancel")), in.name, {})
  ELSE SaveWrite(st, in, Append(asked, Ask("description", in.descInput)),
                 in.descInput, deps)

\* Lines 482-533: the empty-list check and the dependency detection.
SaveDetect(st, in, asked) ==
  IF in.files = <<>> THEN Done(st, "no_files", asked, in.name, {})
  ELSE LET detected == IF in.detectDeps
                       THEN DetectedDeps(in.tree, in.files)
                       ELSE {}
       IN IF detected = {} THEN SaveDescribe(st, in, asked, {})
          ELSE IF in.addDeps = "cancel"
          THEN Done(st, "cancelled", Append(asked, Ask("addDeps", "cancel")),
                    in.name, {})
          ELSE SaveDescribe(st, in, Append(asked, Ask("addDeps", in.addDeps)),
                            IF in.addDeps = "yes" THEN detected ELSE {})

\* Lines 438-453: the overwrite confirmation and the removal of the old directory.
SaveOverwrite(st, in) ==
  IF templateExists(st.registry, in.name)
  THEN IF Refused(in.overwrite)
       THEN Done(st, "cancelled", <<Ask("overwrite", in.overwrite)>>, in.name, {})
       ELSE SaveDetect([st EXCEPT !.disk = RemoveDir(@, in.name)], in,
                       <<Ask("overwrite", in.overwrite)>>)
  ELSE SaveDetect(st, in, <<>>)

\* saveCommand when sourcePath is the storage directory of the template
\* in.from, with the default enumeration and -d given. The directory is
\* looked at by pathExists/stat before the overwrite branch and listed after
\* it: fs.readdir rejects when the directory is gone by then, and fs.copy
\* rejects when source and destination are the same file.
saveFromStorage(st, in) ==
  IF ~st.initialized THEN Done(st, "not_initialized", <<>>, in.name, {})
  ELSE IF ~st.disk[in.from].exists THEN Done(st, "path_missing", <<>>, in.name, {})
  ELSE IF templateExists(st.registry, in.name) /\ Refused(in.overwrite)
  THEN Done(st, "cancelled", <<Ask("overwrite", in.overwrite)>>, in.name, {})
  ELSE LET exists == templateExists(st.registry, in.name)
           st1    == IF exists THEN [st EXCEPT !.disk = RemoveDir(@, in.name)] ELSE st
           asked  == IF exists THEN <<Ask("overwrite", in.overwrite)>> ELSE <<>>
           tree   == st1.disk[in.from].files
       IN IF ~st1.disk[in.from].exists
          THEN Done(st1, "readdir_failed", asked, in.name, {})
          ELSE SaveDetect(st1,
                 [ name |-> in.name, src |-> in.from, tree |-> tree,
                   files |-> getFilesRecursive(tree),
                   failAt |-> IF in.name = in.from THEN 1 ELSE 0,
                   overwrite |-> in.overwrite, detectDeps |-> FALSE,
                   addDeps |-> "no", description |-> "d", descInput |-> "d",
                   now |-> in.now ],
                 asked)

saveCommand(st, in) ==
  IF ~st.initialized THEN Done(st, "not_initialized", <<>>, in.name, {})
  ELSE IF ~SourceExists(in.src) THEN Done(st, "path_missing", <<>>, in.name, {})
  ELSE IF ~SourceIsDirectory(in.src) THEN Done(st, "not_directory", <<>>, in.name, {})
  ELSE SaveOverwrite(st, in)

-----------------------------------------------------------------------------
(* brick export <name> [--output file] *)

Archive(entries) == [kind |-> "archive", entries |-> entries]

\* `${templateName}.brick`
ArchiveFileName(name) ==
  CASE name = "t1"  -> "t1.brick"
    [] name = "t2"  -> "t2.brick"
    [] name = "rem" -> "rem.brick"
    [] OTHER        -> "x.brick"

\* path.dirname(p)
DirName(p) == SubSeq(p, 1, Len(p) - 1)

\* Mutant of createBrickArchive: only the files directly in the storage
\* directory are packed; subdirectories are not descended into.
createBrickArchive_topLevelOnly(tree, metadata) ==
  Archive({ File(<<"template">> \o e.path, e.content) :
              e \in {x \in tree : x.path # BrickJson /\ Len(x.path) = 1} }
          \cup { File(BrickJson, Json(metadata)) })

\* Mutant of createBrickArchive: the storage directory's own brick.json is
\* not filtered out and is packed under template/ as well.
createBrickArchive_keepsBrickJson(tree, metadata) ==
  Archive({ File(<<"template">> \o e.path, e.content) : e \in tree }
          \cup { File(BrickJson, Json(metadata)) })

\* createBrickArchive: every file of the storage directory except the one
\* whose name relative to the directory is brick.json goes under template/,
\* and the loaded metadata is appended as brick.json at the root.
createBrickArchive(tree, metadata) ==
  Archive({ File(<<"template">> \o e.path, e.content) :
              e \in {x \in tree : x.path # BrickJson} }
          \cup { File(BrickJson, Json(metadata)) })

\* options.output ? path.resolve(options.output)
\*                : path.join(process.cwd(), outputFileName)
OutputPath(name, output) ==
  IF output # None THEN output ELSE <<ArchiveFileName(name)>>

\* Lines 64-79: the output path, its directory, the archive file.
ExportWrite(st, name, metadata, output) ==
  LET outputPath == OutputPath(name, output)
      dirs1   == IF DirName(outputPath) = <<>>
                 THEN st.cwd.dirs
                 ELSE st.cwd.dirs \cup {DirName(outputPath)}
      archive == createBrickArchive(st.disk[name].files, metadata)
  IN Done([st EXCEPT !.cwd = [dirs  |-> dirs1,
                              files |-> WriteFile(@.files, outputPath, archive)]],
          "ok", <<>>, name, {})

\* Mutant of ExportRejectsType: the type check is missing.
ExportRejectsType_never(type) == FALSE

\* template.type !== "local"
ExportRejectsType(type) == type # "local"

exportCommand(st, in) ==
  IF ~st.initialized THEN Done(st, "not_initialized", <<>>, None, {})
  ELSE LET templateName == resolveTemplateName(st.registry, in.selector)
           template     == getTemplate(st.registry, templateName)
       IN IF templateName = None THEN Done(st, "not_found", <<>>, None, {})
          ELSE IF template = NoEntry THEN Done(st, "not_found", <<>>, templateName, {})
          ELSE IF ExportRejectsType(template.type)
          THEN Done(st, "unsupported_type", <<>>, templateName, {})
          ELSE IF ~st.disk[templateName].exists
          THEN Done(st, "files_missing", <<>>, templateName, {})
          ELSE IF loadTemplateMetadata(st.disk, templateName) = NullMetadata
          THEN Done(st, "metadata_missing", <<>>, templateName, {})
          ELSE ExportWrite(st, templateName,
                           loadTemplateMetadata(st.disk, templateName), in.output)

-----------------------------------------------------------------------------
(* brick import <file> [--name n] [--force] *)

\* tar.extract into the temporary directory: the archive's entries as files.
Extract(archive) == archive.entries

\* fs.pathExists(path.join(tempDir, "brick.json"))
HasBrickJson(tmp) == HasFile(tmp, BrickJson)

\* fs.pathExists(path.join(tempDir, "template"))
HasTemplateDir(tmp) == \E e \in tmp : e.path[1] = "template"

\* fs.copy(sourceTemplateDir, templateDir), or the fallback that copies every
\* top-level entry of the temporary directory except brick.json.
ImportedFiles(tmp) ==
  IF HasTemplateDir(tmp)
  THEN { File(Tail(e.path), e.content) :
           e \in {x \in tmp : x.path[1] = "template" /\ Len(x.path) > 1} }
  ELSE { e \in tmp : e.path[1] # "brick.json" }

\* The states the store goes through in lines 733-784 when the copy
\* succeeds: after the copy (line 757), after saveTemplateMetadata (line
\* 772), after addTemplateToStore (line 784).
ImportInstallSteps(st, in, tmp, metadata, templateName) ==
  LET disk1 == IF st.disk[templateName].exists
               THEN RemoveDir(st.disk, templateName)
               ELSE st.disk
      disk2 == [disk1 EXCEPT ![templateName] =
                  [exists |-> TRUE, files |-> ImportedFiles(tmp)]]
      updatedMetadata ==
        [metadata EXCEPT !.name = templateName,
                         !.updatedAt = in.now,
                         !.source = [origin |-> "local",
                                     path   |-> in.file[Len(in.file)]]]
      disk3 == saveTemplateMetadata(disk2, templateName, updatedMetadata)
      storeEntry ==
        [ type        |-> "local",
          path        |-> getTemplatePath(templateName),
          description |-> metadata.description,
          createdAt   |-> metadata.createdAt,
          updatedAt   |-> in.now ]
  IN << [st EXCEPT !.disk = disk2],
        [st EXCEPT !.disk = disk3],
        [st EXCEPT !.disk = disk3,
                   !.registry = addTemplateToStore(@, templateName, storeEntry)] >>

\* Lines 733-784: replace the storage directory, write brick.json and the
\* registry entry under templateName. When fs.copy rejects (in.copyFails)
\* the files it had already written (those at the paths in.partial) stay,
\* the error is caught at line 798 and nothing else is written.
ImportInstall(st, in, asked, tmp, metadata, templateName) ==
  LET disk1 == IF st.disk[templateName].exists
               THEN RemoveDir(st.disk, templateName)
               ELSE st.disk
      part == {e \in ImportedFiles(tmp) : e.path \in in.partial}
  IN IF in.copyFails
     THEN Done([st EXCEPT !.disk =
                  [disk1 EXCEPT ![templateName] =
                     IF part = {} THEN @ ELSE [exists |-> TRUE, files |-> part]]],
               "copy_failed", asked, templateName, Paths(part))
     ELSE Done(ImportInstallSteps(st, in, tmp, metadata, templateName)[3],
               "ok", asked, templateName, Paths(ImportedFiles(tmp)))

\* Mutant of ImportResolveName: --name is ignored, the archive's name is
\* the starting name.
ImportResolveName_ignoresOverride(st, in, tmp, metadata) ==
  LET templateName == metadata.name
  IN IF ~templateExists(st.registry, templateName) \/ in.force
     THEN ImportInstall(st, in, <<>>, tmp, metadata, templateName)
     ELSE IF ~Refused(in.overwrite)
     THEN ImportInstall(st, in, <<Ask("overwrite", in.overwrite)>>,
                        tmp, metadata, templateName)
     ELSE IF in.newName = "cancel"
     THEN Done(st, "cancelled",
               <<Ask("overwrite", in.overwrite), Ask("newName", "cancel")>>,
               templateName, {})
     ELSE ImportInstall(st, in,
                        <<Ask("overwrite", in.overwrite), Ask("newName", in.newName)>>,
                        tmp, metadata, in.newName)

\* Lines 697-731: the name conflict. Without --force the user is asked to
\* confirm; a refusal or a cancel leads to the prompt for a new name.
ImportResolveName(st, in, tmp, metadata) ==
  LET templateName == IF in.name # None THEN in.name ELSE metadata.name
  IN IF ~templateExists(st.registry, templateName) \/ in.force
     THEN ImportInstall(st, in, <<>>, tmp, metadata, templateName)
     ELSE IF ~Refused(in.overwrite)
     THEN ImportInstall(st, in, <<Ask("overwrite", in.overwrite)>>,
                        tmp, metadata, templateName)
     ELSE IF in.newName = "cancel"
     THEN Done(st, "cancelled",
               <<Ask("overwrite", in.overwrite), Ask("newName", "cancel")>>,
               templateName, {})
     ELSE ImportInstall(st, in,
                        <<Ask("overwrite", in.overwrite), Ask("newName", in.newName)>>,
                        tmp, metadata, in.newName)

\* Mutant of importCommand: with --name given, the extracted files are
\* copied into the storage directory before brick.json is looked for.
importCommand_checksAfterCopy(st, in) ==
  IF ~st.initialized THEN Done(st, "not_initialized", <<>>, None, {})
  ELSE IF ~HasFile(st.cwd.files, in.file)
  THEN Done(st, "file_not_found", <<>>, None, {})
  ELSE LET tmp == Extract(ContentAt(st.cwd.files, in.file))
       IN IF HasBrickJson(tmp) /\ ContentAt(tmp, BrickJson).kind = "json"
          THEN ImportResolveName(st, in, tmp, ContentAt(tmp, BrickJson).md)
          ELSE IF in.name # None
          THEN Done([st EXCEPT !.disk[in.name] =
                       [exists |-> TRUE, files |-> ImportedFiles(tmp)]],
                    "invalid_archive", <<>>, None, {})
          ELSE Done(st, "invalid_archive", <<>>, None, {})

\* Lines 682-784: what import does with the content tmp of its temporary
\* directory once tar.extract has returned.
ImportExtracted(st, in, tmp) ==
  IF ~HasBrickJson(tmp) THEN Done(st, "invalid_archive", <<>>, None, {})
  ELSE IF ContentAt(tmp, BrickJson).kind # "json"
  THEN Done(st, "invalid_archive", <<>>, None, {})
  ELSE ImportResolveName(st, in, tmp, ContentAt(tmp, BrickJson).md)

importCommand(st, in) ==
  IF ~st.initialized THEN Done(st, "not_initialized", <<>>, None, {})
  ELSE IF ~HasFile(st.cwd.files, in.file)
  THEN Done(st, "file_not_found", <<>>, None, {})
  ELSE ImportExtracted(st, in, Extract(ContentAt(st.cwd.files, in.file)))

-----------------------------------------------------------------------------
(* brick clean <name> [--pattern re] [--dry-run] [--no-keep-external] *)

\* The custom patterns the user passes to --pattern.
CustomPatterns == {"const"}

\* A custom pattern that matches the empty string: blank lines.
BlankPattern == "^\\s*$"

\* new RegExp(customPattern).test(line)
CustomMatches(pattern, line) ==
  \/ pattern = "const" /\ line = CodeLine
  \/ pattern = BlankPattern /\ line = ""

\* Whether LOCAL_IMPORT_PATTERNS has an entry for the extension.
HasImportPatterns(ext) == ext = ".ts"

\* Some pattern of LOCAL_IMPORT_PATTERNS[ext] matches line.trim().
BuiltinMatches(ext, line) == ext = ".ts" /\ line = LocalImportLine

\* EXTERNAL_PREFIXES has entries for ".dart" only.
isExternalImport(line, ext) == FALSE

\* The decision cleanFileContent takes for one line (no .dart file occurs,
\* so the project-name branch never applies).
ShouldRemove(line, ext, pattern, keepExternal) ==
  \/ pattern # None /\ CustomMatches(pattern, line)
  \/ BuiltinMatches(ext, line) /\ ~(keepExternal /\ isExternalImport(line, ext))

NL == "\n"

\* A string is modelled as a sequence of atoms: whole non-empty lines and NL.
RECURSIVE JoinLines(_)
JoinLines(lines) ==
  LET atom == IF lines[1] = "" THEN <<>> ELSE <<lines[1]>>
  IN IF Len(lines) = 1 THEN atom
     ELSE atom \o <<NL>> \o JoinLines(Tail(lines))

\* content.split("\n")
RECURSIVE SplitLines(_)
SplitLines(s) ==
  IF s = <<>> THEN <<"">>
  ELSE IF s[1] = NL THEN <<"">> \o SplitLines(Tail(s))
  ELSE IF Len(s) = 1 THEN <<s[1]>>
  ELSE <<s[1]>> \o SplitLines(Tail(Tail(s)))

\* .replace(/\n{3,}/g, "\n\n"): run is the number of NL just emitted.
RECURSIVE CollapseNewlines(_, _)
CollapseNewlines(s, run) ==
  IF s = <<>> THEN <<>>
  ELSE IF s[1] = NL
       THEN IF run >= 2 THEN CollapseNewlines(Tail(s), run)
            ELSE <<NL>> \o CollapseNewlines(Tail(s), run + 1)
       ELSE <<s[1]>> \o CollapseNewlines(Tail(s), 0)

RECURSIVE KeptLines(_, _, _, _)
KeptLines(lines, ext, pattern, keepExternal) ==
  IF lines = <<>> THEN <<>>
  ELSE IF ShouldRemove(lines[1], ext, pattern, keepExternal)
       THEN KeptLines(Tail(lines), ext, pattern, keepExternal)
       ELSE <<lines[1]>> \o KeptLines(Tail(lines), ext, pattern, keepExternal)

\* fs.readFile(filePath, "utf-8").split("\n"); a JSON file reads as text
\* that none of the patterns matches.
ReadLines(content) ==
  IF content.kind = "text" THEN content.lines ELSE <<"{json}">>

cleanFileContent(lines, ext, pattern, keepExternal) ==
  LET cleanedLines == KeptLines(lines, ext, pattern, keepExternal)
  IN [ cleaned      |-> IF cleanedLines = <<>> THEN <<"">>
                        ELSE SplitLines(CollapseNewlines(JoinLines(cleanedLines), 0)),
       removedCount |-> Len(lines) - Len(cleanedLines) ]

\* Lines 273-301: the files of the manifest with at least one removable line.
RECURSIVE FilesToClean(_, _, _)
FilesToClean(tree, files, in) ==
  IF files = <<>> THEN <<>>
  ELSE LET file == files[1]
           ext  == ExtName(file[Len(file)])
           rest == FilesToClean(tree, Tail(files), in)
       IN IF ~HasImportPatterns(ext) /\ in.pattern = None THEN rest
          ELSE IF ~HasFile(tree, file) THEN rest
          ELSE IF cleanFileContent(ReadLines(ContentAt(tree, file)), ext,
                                   in.pattern, in.keepExternal).removedCount > 0
          THEN <<file>> \o rest
          ELSE rest

\* Mutant of CleanFiles: a file whose cleaned content is empty is deleted
\* instead of being written back.
RECURSIVE CleanFiles_dropsEmpty(_, _, _)
CleanFiles_dropsEmpty(tree, files, in) ==
  IF files = <<>> THEN tree
  ELSE LET file    == files[1]
           ext     == ExtName(file[Len(file)])
           cleaned == cleanFileContent(ReadLines(ContentAt(tree, file)), ext,
                                       in.pattern, in.keepExternal).cleaned
       IN CleanFiles_dropsEmpty(
            IF ~HasFile(tree, file) THEN tree
            ELSE IF cleaned = <<"">> THEN {e \in tree : e.path # file}
            ELSE WriteFile(tree, file, Text(cleaned)),
            Tail(files), in)

\* Lines 345-362: rewrite each file to clean.
RECURSIVE CleanFiles(_, _, _)
CleanFiles(tree, files, in) ==
  IF files = <<>> THEN tree
  ELSE LET file == files[1]
           ext  == ExtName(file[Len(file)])
       IN CleanFiles(
            IF HasFile(tree, file)
            THEN WriteFile(tree, file,
                   Text(cleanFileContent(ReadLines(ContentAt(tree, file)), ext,
                                         in.pattern, in.keepExternal).cleaned))
            ELSE tree,
            Tail(files), in)

\* Mutant of CleanApply: --dry-run is not looked at.
CleanApply_ignoresDryRun(st, in, name, metadata) ==
  LET tree         == st.disk[name].files
      filesToClean == FilesToClean(tree, metadata.files, in)
  IN IF filesToClean = <<>> THEN Done(st, "already_clean", <<>>, name, {})
     ELSE IF Refused(in.confirm)
     THEN Done(st, "cancelled", <<Ask("clean", in.confirm)>>, name, {})
     ELSE LET disk1 == [st.disk EXCEPT ![name].files = CleanFiles(tree, filesToClean, in)]
              disk2 == saveTemplateMetadata(disk1, name,
                                            [metadata EXCEPT !.updatedAt = in.now])
          IN Done([st EXCEPT !.disk = disk2], "ok",
                  <<Ask("clean", in.confirm)>>, name, {})

\* Mutant of CleanApply: the metadata is rewritten with a new updatedAt
\* also when the analysis finds nothing to clean or --dry-run is given.
CleanApply_alwaysStamps(st, in, name, metadata) ==
  LET tree         == st.disk[name].files
      filesToClean == FilesToClean(tree, metadata.files, in)
      stamped      == [st EXCEPT !.disk =
                         saveTemplateMetadata(@, name,
                                              [metadata EXCEPT !.updatedAt = in.now])]
  IN IF filesToClean = <<>> THEN Done(stamped, "already_clean", <<>>, name, {})
     ELSE IF in.dryRun THEN Done(stamped, "dry_run", <<>>, name, {})
     ELSE IF Refused(in.confirm)
     THEN Done(st, "cancelled", <<Ask("clean", in.confirm)>>, name, {})
     ELSE LET disk1 == [st.disk EXCEPT ![name].files = CleanFiles(tree, filesToClean, in)]
              disk2 == saveTemplateMetadata(disk1, name,
                                            [metadata EXCEPT !.updatedAt = in.now])
          IN Done([st EXCEPT !.disk = disk2], "ok",
                  <<Ask("clean", in.confirm)>>, name, {})

\* Lines 273-366: analysis, dry run, confirmation, rewrite, metadata.
CleanApply(st, in, name, metadata) ==
  LET tree         == st.disk[name].files
      filesToClean == FilesToClean(tree, metadata.files, in)
  IN IF filesToClean = <<>> THEN Done(st, "already_clean", <<>>, name, {})
     ELSE IF in.dryRun THEN Done(st, "dry_run", <<>>, name, {})
     ELSE IF Refused(in.confirm)
     THEN Done(st, "cancelled", <<Ask("clean", in.confirm)>>, name, {})
     ELSE LET disk1 == [st.disk EXCEPT ![name].files = CleanFiles(tree, filesToClean, in)]
              disk2 == saveTemplateMetadata(disk1, name,
                                            [metadata EXCEPT !.updatedAt = in.now])
          IN Done([st EXCEPT !.disk = disk2], "ok",
                  <<Ask("clean", in.confirm)>>, name, {})

\* Mutant of CleanRejectsType: the type check is missing.
CleanRejectsType_never(type) == FALSE

\* template.type === "remote"
CleanRejectsType(type) == type = "remote"

cleanCommand(st, in) ==
  IF ~st.initialized THEN Done(st, "not_initialized", <<>>, None, {})
  ELSE LET name     == resolveTemplateName(st.registry, in.selector)
           template == getTemplate(st.registry, name)
       IN IF name = None THEN Done(st, "not_found", <<>>, None, {})
          ELSE IF template = NoEntry THEN Done(st, "not_found", <<>>, name, {})
          ELSE IF CleanRejectsType(template.type)
          THEN Done(st, "unsupported_type", <<>>, name, {})
          ELSE IF loadTemplateMetadata(st.disk, name) = NullMetadata
          THEN Done(st, "metadata_missing", <<>>, name, {})
          ELSE CleanApply(st, in, name, loadTemplateMetadata(st.disk, name))

-----------------------------------------------------------------------------
(* brick init *)

\* initializeStorage(): the root directory with an empty registry.
initializeStorage(st) == [st EXCEPT !.initialized = TRUE, !.registry = <<>>]

\* Mutant of initCommand: isInitialized() is not looked at.
initCommand_alwaysInitializes(st) ==
  Done(initializeStorage(st), "ok", <<>>, None, {})

initCommand(st) ==
  IF st.initialized
  THEN Done(st, "already_initialized", <<>>, None, {})
  ELSE Done(initializeStorage(st), "ok", <<>>, None, {})

-----------------------------------------------------------------------------
(* State *)

VARIABLES
  initialized,  \* whether the root directory with store.json exists
  registry,     \* store.json: sequence of [name, entry]
  disk,         \* templates/<name>/ for every name: [exists, files]
  cwd,          \* the working directory: archive files and directories
  now,          \* the clock
  last          \* the last invocation: command (op), outcome, prompts shown
                \* with their answers (asked), template name, paths copied,
                \* archive path read or written (file), --force, and for an
                \* import: the template whose export just before wrote the
                \* archive (from) and whether the name was unregistered (fresh),
                \* for a save from a storage directory: its template (from),
                \* for an import given any string as --name: it (override),
                \* for an invocation followed write by write: the states of
                \* the store its remaining writes lead to (pending),
                \* for a clean whose options are looked at: they (options),
                \* for cleanFileContent applied on its own: the lines of the
                \* content it is given next (content) and the count it
                \* returned (removed),
                \* for imports followed step by step: for each process its
                \* position, archive, temporary directory and outcome
                \* (running),
                \* for getFilesRecursive applied on its own: the list it
                \* returned (listed),
                \* and for a save the position in the file list of the file
                \* whose copy was made to fail (failAt, 0 for none)

vars == <<initialized, registry, disk, cwd, now, last>>

St == [initialized |-> initialized, registry |-> registry, disk |-> disk, cwd |-> cwd]

Answers == {"yes", "no", "cancel"}

\* A template linked to a GitHub path (brick link): a registry entry only.
RemoteEntry ==
  [ type        |-> "remote",
    github      |-> [owner |-> "o", repo |-> "r", path |-> "p", ref |-> "main"],
    description |-> "d",
    createdAt   |-> 0,
    updatedAt   |-> 0 ]

\* Archive files lying in the working directory that no export of this
\* store produced: one without brick.json, and one with brick.json and
\* the files at the archive root instead of under template/.
ForeignArchives ==
  { File(<<"bad.brick">>,
         Archive({ File(<<"template", "a.ts">>, Text(<<CodeLine>>)) })),
    File(<<"flat.brick">>,
         Archive({ File(BrickJson,
                        Json([ name         |-> "t2",
                               type         |-> "local",
                               description  |-> "d",
                               createdAt    |-> 0,
                               updatedAt    |-> 0,
                               source       |-> [origin |-> "local", path |-> "proj"],
                               files        |-> << <<"a.ts">> >>,
                               dependencies |-> {} ])),
                   File(<<"a.ts">>, Text(<<CodeLine>>)) })) }

\* The archive paths the user passes to import and to export --output.
MissingArchive == <<"missing.brick">>
OutputOption == <<"out", "x.brick">>

Uninitialized ==
  [ initialized |-> FALSE,
    registry    |-> <<>>,
    disk        |-> [n \in AllNames |-> NoDir],
    cwd         |-> [dirs |-> {}, files |-> ForeignArchives] ]

\* An initialized store holding a linked remote template "rem".
Linked ==
  [Uninitialized EXCEPT !.initialized = TRUE,
                        !.registry = <<[name |-> "rem", entry |-> RemoteEntry]>>]

\* The same store after `brick save t1 proj -d d` at time 0.
Populated ==
  saveCommand(Linked,
              [ name |-> "t1", src |-> "proj", tree |-> SourceTree("proj"),
                files |-> getFilesRecursive(SourceTree("proj")), failAt |-> 0,
                overwrite |-> "yes", detectDeps |-> FALSE, addDeps |-> "no",
                description |-> "d", descInput |-> "d", now |-> 0 ]).st

\* CleanOptions when no option is given (keepExternal defaults to true).
NoOptions == [pattern |-> None, dryRun |-> FALSE, keepExternal |-> TRUE]

NoLast ==
  [ op |-> "none", outcome |-> "none", asked |-> <<>>, name |-> None,
    copied |-> {}, file |-> <<>>, force |-> FALSE, from |-> None, fresh |-> FALSE,
    failAt |-> 0, override |-> None, pending |-> <<>>, options |-> NoOptions,
    content |-> <<>>, removed |-> 0, running |-> <<>>, listed |-> <<>> ]

Init ==
  /\ \E st \in {Uninitialized, Populated} :
       /\ initialized = st.initialized
       /\ registry = st.registry
       /\ disk = st.disk
       /\ cwd = st.cwd
  /\ now = 1
  /\ last = NoLast

\* The invocation's effects become the state; the clock moves on.
Commit(r) ==
  /\ initialized' = r.st.initialized
  /\ registry' = r.st.registry
  /\ disk' = r.st.disk
  /\ cwd' = r.st.cwd
  /\ now' = now + 1

Report(op, r) ==
  [ op |-> op, outcome |-> r.outcome, asked |-> r.asked, name |-> r.name,
    copied |-> r.copied, file |-> <<>>, force |-> FALSE, from |-> None,
    fresh |-> FALSE, failAt |-> 0, override |-> None, pending |-> <<>>,
    options |-> NoOptions, content |-> <<>>, removed |-> 0, running |-> <<>>,
    listed |-> <<>> ]

Selectors == {ByName(n) : n \in TemplateNames} \cup {ByIndex(1), ByIndex(2)}

InitCmd ==
  /\ now <= MaxClock
  /\ LET r == initCommand(St)
     IN Commit(r) /\ last' = Report("init", r)

\* Options and answers are drawn only where the command can read them: a
\* source that is no directory or yields no file ends the command first.
Save ==
  /\ now <= MaxClock
  /\ \E name \in TemplateNames, src \in SourcePaths :
     \E include \in (IF SourceIsDirectory(src) THEN IncludePatterns \cup {None} ELSE {None}),
        exclude \in (IF SourceIsDirectory(src) THEN ExcludePatterns \cup {None} ELSE {None}) :
     \E files \in SelectedFiles(SourceTree(src), include, exclude) :
     \E overwrite \in (IF templateExists(registry, name) THEN Answers ELSE {"yes"}),
        detectDeps \in (IF files = <<>> THEN {FALSE} ELSE BOOLEAN),
        description \in (IF files = <<>> THEN {"d"} ELSE {None, "d"}) :
     \E addDeps \in (IF detectDeps THEN Answers ELSE {"no"}),
        descInput \in (IF description = None THEN {"d", "cancel"} ELSE {"d"}) :
       LET r == saveCommand(St,
                  [ name |-> name, src |-> src, tree |-> SourceTree(src),
                    files |-> files, failAt |-> 0,
                    overwrite |-> overwrite, detectDeps |-> detectDeps,
                    addDeps |-> addDeps, description |-> description,
                    descInput |-> descInput, now |-> now ])
       IN Commit(r) /\ last' = Report("save", r)

Export ==
  /\ now <= MaxClock
  /\ \E selector \in Selectors, output \in {None, OutputOption} :
       LET r == exportCommand(St, [selector |-> selector, output |-> output])
       IN /\ Commit(r)
          /\ last' = [Report("export", r) EXCEPT
                        !.file = IF r.outcome = "ok"
                                 THEN OutputPath(r.name, output) ELSE <<>>]

Import ==
  /\ now <= MaxClock
  /\ \E file \in Paths(cwd.files) \cup {MissingArchive},
        name \in TemplateNames \cup {None},
        force \in BOOLEAN :
     \E overwrite \in (IF force THEN {"yes"} ELSE Answers) :
     \E newName \in (IF Refused(overwrite) THEN TemplateNames \cup {"cancel"}
                     ELSE {"cancel"}) :
       LET r == importCommand(St,
                  [ file |-> file, name |-> name, force |-> force,
                    overwrite |-> overwrite, newName |-> newName,
                    copyFails |-> FALSE, partial |-> {}, now |-> now ])
       IN /\ Commit(r)
          /\ last' = [Report("import", r) EXCEPT
                        !.file = file,
                        !.force = force,
                        !.from = IF /\ last.op = "export"
                                    /\ last.outcome = "ok"
                                    /\ last.file = file
                                 THEN last.name ELSE None,
                        !.fresh = r.name \notin RegistryNames(registry)]

Clean ==
  /\ now <= MaxClock
  /\ \E selector \in Selectors, pattern \in CustomPatterns \cup {None},
        dryRun \in BOOLEAN, keepExternal \in BOOLEAN :
     \E confirm \in (IF dryRun THEN {"yes"} ELSE Answers) :
       LET r == cleanCommand(St,
                  [ selector |-> selector, pattern |-> pattern, dryRun |-> dryRun,
                    keepExternal |-> keepExternal, confirm |-> confirm, now |-> now ])
       IN Commit(r) /\ last' = Report("clean", r)

Next == InitCmd \/ Save \/ Export \/ Import \/ Clean

Spec == Init /\ [][Next]_vars

-----------------------------------------------------------------------------
(* Names outside the pattern: save and import are handed any string as    *)
(* the name argument, the --name option and the archive's name field.     *)

\* An archive whose brick.json carries a name with a space.
OddArchive ==
  File(<<"odd.brick">>,
       Archive({ File(BrickJson,
                      Json([ name         |-> BadName,
                             type         |-> "local",
                             description  |-> "d",
                             createdAt    |-> 0,
                             updatedAt    |-> 0,
                             source       |-> [origin |-> "local", path |-> "proj"],
                             files        |-> << <<"a.ts">> >>,
                             dependencies |-> {} ])),
                 File(<<"template", "a.ts">>, Text(<<CodeLine>>)) }))

InitNames ==
  /\ initialized = Populated.initialized
  /\ registry = Populated.registry
  /\ disk = Populated.disk
  /\ cwd = [Populated.cwd EXCEPT !.files = @ \cup {OddArchive}]
  /\ now = 1
  /\ last = NoLast

\* brick save <name> <dir> -d d, with any string as the name.
SaveNamed ==
  /\ now <= MaxClock
  /\ \E name \in AllNames, src \in {"proj", "misc"} :
     \E overwrite \in (IF templateExists(registry, name) THEN Answers ELSE {"yes"}) :
       LET r == saveCommand(St,
                  [ name |-> name, src |-> src, tree |-> SourceTree(src),
                    files |-> getFilesRecursive(SourceTree(src)), failAt |-> 0,
                    overwrite |-> overwrite, detectDeps |-> FALSE,
                    addDeps |-> "no", description |-> "d", descInput |-> "d",
                    now |-> now ])
       IN Commit(r) /\ last' = Report("save", r)

\* brick import <file> [--name <any string>] [--force]; the prompt for a new
\* name accepts only what its validator accepts.
ImportNamed ==
  /\ now <= MaxClock
  /\ \E file \in Paths(cwd.files), name \in AllNames \cup {None}, force \in BOOLEAN :
     \E overwrite \in (IF force THEN {"yes"} ELSE Answers) :
     \E newName \in (IF Refused(overwrite)
                     THEN {n \in AllNames : MatchesNamePattern(n)} \cup {"cancel"}
                     ELSE {"cancel"}) :
       LET r == importCommand(St,
                  [ file |-> file, name |-> name, force |-> force,
                    overwrite |-> overwrite, newName |-> newName,
                    copyFails |-> FALSE, partial |-> {}, now |-> now ])
       IN /\ Commit(r)
          /\ last' = [Report("import", r) EXCEPT !.file = file, !.force = force,
                                                  !.override = name]

NextNames == SaveNamed \/ ImportNamed

SpecNames == InitNames /\ [][NextNames]_vars

-----------------------------------------------------------------------------
(* Failing copies: fs.copy can reject for any file (unreadable source,    *)
(* full disk, permissions).                                               *)

\* brick save <name> proj -d d, where the copy of the file at position failAt
\* of the list fails (0: none fails).
SaveIO ==
  /\ now <= MaxClock
  /\ \E name \in TemplateNames, failAt \in 0..2 :
     \E overwrite \in (IF templateExists(registry, name) THEN Answers ELSE {"yes"}) :
       LET r == saveCommand(St,
                  [ name |-> name, src |-> "proj", tree |-> SourceTree("proj"),
                    files |-> getFilesRecursive(SourceTree("proj")),
                    failAt |-> failAt,
                    overwrite |-> overwrite, detectDeps |-> FALSE,
                    addDeps |-> "no", description |-> "d", descInput |-> "d",
                    now |-> now ])
       IN Commit(r) /\ last' = [Report("save", r) EXCEPT !.failAt = failAt]

\* brick import <file> [--name n] --force, where the copy into the storage
\* directory may fail after having written the files at the paths in partial.
ImportIO ==
  /\ now <= MaxClock
  /\ \E file \in Paths(cwd.files), name \in TemplateNames \cup {None},
        copyFails \in BOOLEAN :
     \E partial \in (IF copyFails THEN {{}, {<<"a.ts">>}} ELSE {{}}) :
       LET r == importCommand(St,
                  [ file |-> file, name |-> name, force |-> TRUE,
                    overwrite |-> "yes", newName |-> "cancel",
                    copyFails |-> copyFails, partial |-> partial, now |-> now ])
       IN /\ Commit(r)
          /\ last' = [Report("import", r) EXCEPT !.file = file, !.force = TRUE]

NextIO == SaveIO \/ ImportIO

SpecIO == Init /\ [][NextIO]_vars

-----------------------------------------------------------------------------
(* Saving from inside the storage: the source path of a save is any       *)
(* directory, the storage directory of a template included.               *)

\* brick save <name> ~/.codebrick/templates/<from> -d d
SaveFromStorage ==
  /\ now <= MaxClock
  /\ \E name \in TemplateNames, from \in TemplateNames :
     \E overwrite \in (IF templateExists(registry, name) THEN Answers ELSE {"yes"}) :
       LET r == saveFromStorage(St, [ name |-> name, from |-> from,
                                      overwrite |-> overwrite, now |-> now ])
       IN Commit(r) /\ last' = [Report("save", r) EXCEPT !.from = from]

NextStorage == SaveNamed \/ SaveFromStorage

SpecStorage == Init /\ [][NextStorage]_vars

-----------------------------------------------------------------------------
(* Write by write: a save or an import of a name that is not registered,  *)
(* followed through the states between its writes. The process can be     *)
(* killed between any two writes.                                         *)

\* brick save <name> <dir> -d d up to the end of the copy loop.
SaveStart ==
  /\ now <= MaxClock
  /\ last.pending = <<>>
  /\ \E name \in AllNames \ RegistryNames(registry), src \in {"proj", "misc"} :
       LET in == [ name |-> name, src |-> src, tree |-> SourceTree(src),
                   files |-> getFilesRecursive(SourceTree(src)), failAt |-> 0,
                   overwrite |-> "yes", detectDeps |-> FALSE, addDeps |-> "no",
                   description |-> "d", descInput |-> "d", now |-> now ]
           r     == saveCommand(St, in)
           steps == SaveWriteSteps(St, in, "d", {})
       IN /\ r.outcome = "ok"
          /\ steps[3] = r.st
          /\ initialized' = steps[1].initialized
          /\ registry' = steps[1].registry
          /\ disk' = steps[1].disk
          /\ cwd' = steps[1].cwd
          /\ now' = now
          /\ last' = [Report("save", r) EXCEPT !.outcome = "running",
                                               !.fresh = TRUE,
                                               !.pending = Tail(steps)]

\* brick import <file> [--name n] up to the end of the copy.
ImportStart ==
  /\ now <= MaxClock
  /\ last.pending = <<>>
  /\ \E file \in Paths(cwd.files), name \in AllNames \cup {None} :
       LET in == [ file |-> file, name |-> name, force |-> FALSE,
                   overwrite |-> "no", newName |-> "cancel",
                   copyFails |-> FALSE, partial |-> {}, now |-> now ]
           r     == importCommand(St, in)
           tmp   == Extract(ContentAt(cwd.files, file))
           steps == ImportInstallSteps(St, in, tmp, ContentAt(tmp, BrickJson).md,
                                       r.name)
       IN /\ r.outcome = "ok"
          /\ r.asked = <<>>
          /\ ~templateExists(registry, r.name)
          /\ steps[3] = r.st
          /\ initialized' = steps[1].initialized
          /\ registry' = steps[1].registry
          /\ disk' = steps[1].disk
          /\ cwd' = steps[1].cwd
          /\ now' = now
          /\ last' = [Report("import", r) EXCEPT !.outcome = "running",
                                                 !.file = file,
                                                 !.fresh = TRUE,
                                                 !.pending = Tail(steps)]

\* The next write of the invocation under way.
Proceed ==
  /\ last.pending # <<>>
  /\ initialized' = Head(last.pending).initialized
  /\ registry' = Head(last.pending).registry
  /\ disk' = Head(last.pending).disk
  /\ cwd' = Head(last.pending).cwd
  /\ now' = IF Tail(last.pending) = <<>> THEN now + 1 ELSE now
  /\ last' = [last EXCEPT !.pending = Tail(@),
                          !.outcome = IF Tail(last.pending) = <<>>
                                      THEN "ok" ELSE "running"]

\* The process is killed before its next write.
Kill ==
  /\ last.pending # <<>>
  /\ now' = now + 1
  /\ last' = [last EXCEPT !.pending = <<>>, !.outcome = "killed"]
  /\ UNCHANGED <<initialized, registry, disk, cwd>>

NextSteps == SaveStart \/ ImportStart \/ Proceed \/ Kill

SpecSteps == Init /\ [][NextSteps]_vars

-----------------------------------------------------------------------------
(* Clean with its options on record.                                      *)

\* brick clean <name> [--pattern re] [--dry-run] [--no-keep-external]
CleanWith ==
  /\ now <= MaxClock
  /\ \E name \in TemplateNames, pattern \in CustomPatterns \cup {None},
        dryRun \in BOOLEAN, keepExternal \in BOOLEAN :
     \E confirm \in (IF dryRun THEN {"yes"} ELSE Answers) :
       LET r == cleanCommand(St,
                  [ selector |-> ByName(name), pattern |-> pattern,
                    dryRun |-> dryRun, keepExternal |-> keepExternal,
                    confirm |-> confirm, now |-> now ])
       IN /\ Commit(r)
          /\ last' = [Report("clean", r) EXCEPT
                        !.options = [ pattern |-> pattern, dryRun |-> dryRun,
                                      keepExternal |-> keepExternal ]]

NextClean == SaveNamed \/ CleanWith

SpecClean == Init /\ [][NextClean]_vars

-----------------------------------------------------------------------------
(* cleanFileContent on its own: any content of a few lines, an extension   *)
(* with and one without built-in patterns, any custom pattern, applied to  *)
(* the content and then to what it returned.                               *)

MaxLines == 3

ContentLines == {LocalImportLine, PkgImportLine, CodeLine, ""}

Contents == UNION { [1..n -> ContentLines] : n \in 1..MaxLines }

InitContent ==
  /\ initialized = Uninitialized.initialized
  /\ registry = Uninitialized.registry
  /\ disk = Uninitialized.disk
  /\ cwd = Uninitialized.cwd
  /\ now = 1
  /\ \E lines \in Contents, file \in {"a.ts", "a.md"},
        pattern \in CustomPatterns \cup {BlankPattern, None},
        keepExternal \in BOOLEAN :
       last = [NoLast EXCEPT
                 !.op = "content",
                 !.file = <<file>>,
                 !.options = [pattern |-> pattern, dryRun |-> FALSE,
                              keepExternal |-> keepExternal],
                 !.content = lines]

\* content.split("\n") of the text at hand goes through cleanFileContent;
\* the text it returns is at hand next.
CleanContent ==
  /\ now <= MaxClock
  /\ LET r == cleanFileContent(last.content, ExtName(last.file[1]),
                               last.options.pattern, last.options.keepExternal)
     IN last' = [last EXCEPT !.op = "cleanFileContent",
                             !.content = r.cleaned,
                             !.removed = r.removedCount]
  /\ now' = now + 1
  /\ UNCHANGED <<initialized, registry, disk, cwd>>

NextContent == CleanContent

SpecContent == InitContent /\ [][NextContent]_vars

-----------------------------------------------------------------------------
(* Import step by step: each brick import is a process of its own that    *)
(* creates its temporary directory in the working directory, extracts,    *)
(* installs and cleans up. Processes started from the same directory      *)
(* interleave at every await.                                             *)

\* path.join(process.cwd(), `.brick-import-${Date.now()}`), t the clock's
\* value in milliseconds.
TempDir(t) == <<".brick-import-" \o ToString(t)>>

IsUnder(path, dir) ==
  Len(path) > Len(dir) /\ SubSeq(path, 1, Len(dir)) = dir

\* The files below the temporary directory, by their path relative to it.
TempContents(c, tempDir) ==
  { File(SubSeq(e.path, Len(tempDir) + 1, Len(e.path)), e.content) :
      e \in {x \in c.files : IsUnder(x.path, tempDir)} }

\* Mutant of RemoveTempDir: the directory is left behind.
RemoveTempDir_keeps(c, tempDir) == c

\* fs.remove(tempDir)
RemoveTempDir(c, tempDir) ==
  [ dirs  |-> c.dirs \ {tempDir},
    files |-> {e \in c.files : ~IsUnder(e.path, tempDir)} ]

\* A process that has not started yet.
Idle == [pc |-> "idle", file |-> <<>>, tempDir |-> <<>>, outcome |-> "none"]

\* One brick import is started.
InitTemp ==
  /\ initialized = Populated.initialized
  /\ registry = Populated.registry
  /\ disk = Populated.disk
  /\ cwd = Populated.cwd
  /\ now = 1
  /\ last = [NoLast EXCEPT !.op = "import", !.running = <<Idle>>]

\* Two brick import are started from the same working directory.
InitRace ==
  /\ initialized = Populated.initialized
  /\ registry = Populated.registry
  /\ disk = Populated.disk
  /\ cwd = Populated.cwd
  /\ now = 1
  /\ last = [NoLast EXCEPT !.op = "import", !.running = <<Idle, Idle>>]

\* Lines 644-673: the checks, then the temporary directory is created.
Begin(p) ==
  /\ last.running[p].pc = "idle"
  /\ \E file \in Paths(Populated.cwd.files) \cup {MissingArchive} :
       IF ~HasFile(cwd.files, file)
       THEN /\ last' = [last EXCEPT !.running[p] =
                          [@ EXCEPT !.pc = "done", !.file = file,
                                    !.outcome = "file_not_found"]]
            /\ UNCHANGED cwd
       ELSE /\ last' = [last EXCEPT !.running[p] =
                          [@ EXCEPT !.pc = "extract", !.file = file,
                                    !.tempDir = TempDir(now)]]
            /\ cwd' = [cwd EXCEPT !.dirs = @ \cup {TempDir(now)}]
  /\ UNCHANGED <<initialized, registry, disk, now>>

\* Lines 677-680: tar.extract into the temporary directory. It rejects on
\* an archive it cannot read, or when its cwd is no directory (any more).
ExtractStep(p) ==
  LET proc    == last.running[p]
      entries == Extract(ContentAt(cwd.files, proc.file))
  IN /\ proc.pc = "extract"
     /\ \E extractFails \in BOOLEAN :
          IF extractFails \/ proc.tempDir \notin cwd.dirs
          THEN /\ last' = [last EXCEPT !.running[p] =
                             [@ EXCEPT !.pc = "cleanup",
                                       !.outcome = "extract_failed"]]
               /\ UNCHANGED cwd
          ELSE /\ last' = [last EXCEPT !.running[p].pc = "install"]
               /\ cwd' = [cwd EXCEPT !.files =
                            {e \in @ : e.path \notin
                                         {proc.tempDir \o x.path : x \in entries}}
                            \cup {File(proc.tempDir \o x.path, x.content) :
                                    x \in entries}]
     /\ UNCHANGED <<initialized, registry, disk, now>>

\* Lines 682-793: brick.json is read from the temporary directory, the name
\* settled, the files copied, metadata and registry written. The cancelled
\* prompt for a new name removes the temporary directory before it returns.
InstallStep(p) ==
  LET proc == last.running[p]
  IN /\ proc.pc = "install"
     /\ \E name \in {None, "t1"}, overwrite \in {"yes", "no"},
           newName \in {"t2", "cancel"}, copyFails \in BOOLEAN :
          LET r == ImportExtracted(St,
                     [ file |-> proc.file, name |-> name, force |-> FALSE,
                       overwrite |-> overwrite, newName |-> newName,
                       copyFails |-> copyFails, partial |-> {}, now |-> now ],
                     TempContents(cwd, proc.tempDir))
          IN /\ initialized' = r.st.initialized
             /\ registry' = r.st.registry
             /\ disk' = r.st.disk
             /\ cwd' = IF r.outcome = "cancelled"
                       THEN RemoveTempDir(r.st.cwd, proc.tempDir)
                       ELSE r.st.cwd
             /\ last' = [last EXCEPT !.running[p] =
                           [@ EXCEPT !.pc = "cleanup", !.outcome = r.outcome]]
     /\ now' = now

\* Lines 794-802: finally, then the function returns or the catch exits.
Cleanup(p) ==
  /\ last.running[p].pc = "cleanup"
  /\ cwd' = RemoveTempDir(cwd, last.running[p].tempDir)
  /\ last' = [last EXCEPT !.running[p].pc = "done"]
  /\ UNCHANGED <<initialized, registry, disk, now>>

\* A millisecond passes.
Tick ==
  /\ now <= MaxClock
  /\ now' = now + 1
  /\ UNCHANGED <<initialized, registry, disk, cwd, last>>

NextTemp ==
  \/ \E p \in DOMAIN last.running : Begin(p)
  \/ \E p \in DOMAIN last.running : ExtractStep(p)
  \/ \E p \in DOMAIN last.running : InstallStep(p)
  \/ \E p \in DOMAIN last.running : Cleanup(p)
  \/ Tick

SpecTemp == InitTemp /\ [][NextTemp]_vars

SpecRace == InitRace /\ [][NextTemp]_vars

-----------------------------------------------------------------------------
(* getFilesRecursive on its own: the working directory is any tree made   *)
(* of these paths, with hidden files and directories, brick.json at two   *)
(* depths, node_modules and __pycache__.                                  *)

TreePaths ==
  { <<"b.ts">>, <<"a.ts">>, <<"api", "a.ts">>, <<"api", "brick.json">>,
    <<"brick.json">>, <<".env">>, <<"api", ".env">>,
    <<"node_modules", "a.ts">>, <<"api", "__pycache__", "a.ts">>,
    <<".git", "a.ts">> }

InitTree ==
  /\ initialized = Uninitialized.initialized
  /\ registry = Uninitialized.registry
  /\ disk = Uninitialized.disk
  /\ now = 1
  /\ \E paths \in SUBSET TreePaths :
       cwd = [dirs |-> {}, files |-> {File(p, Text(<<CodeLine>>)) : p \in paths}]
  /\ last = [NoLast EXCEPT !.op = "tree"]

\* getFilesRecursive(process.cwd())
ListFiles ==
  /\ last.op = "tree"
  /\ last' = [last EXCEPT !.op = "getFilesRecursive",
                          !.listed = getFilesRecursive(cwd.files)]
  /\ UNCHANGED <<initialized, registry, disk, cwd, now>>

NextTree == ListFiles

SpecTree == InitTree /\ [][NextTree]_vars

-----------------------------------------------------------------------------
(* Properties *)

Registered == RegistryNames(registry)

LocalNames == {n \in Registered : getTemplate(registry, n).type = "local"}

Asked(l, prompt, answer) == Ask(prompt, answer) \in Range(l.asked)

CancelledPrompt(l) == \E i \in 1..Len(l.asked) : l.asked[i].answer = "cancel"

\* The outcomes that are structural errors: storage not initialized, name
\* unresolved, template is remote, source path missing or not a directory,
\* no files found, archive without brick.json, metadata missing.
StructuralErrors ==
  { "not_initialized", "not_found", "unsupported_type", "path_missing",
    "not_directory", "no_files", "invalid_archive", "metadata_missing" }

\* C1: after any sequence of save, import, clean and export invocations,
\* every name registered as local has a metadata record (brick.json) and an
\* existing storage directory.
C1_LocalHasMetadataAndDirectory ==
  \A n \in LocalNames :
    /\ disk[n].exists
    /\ loadTemplateMetadata(disk, n) # NullMetadata

\* C2: whenever a prompt of save, import or clean is cancelled, the
\* operation stops and the registry, every template's metadata and every
\* storage directory are as they were before the operation started.
C2_CancelStopsAndLeavesStateUnchanged ==
  [][ (last'.op \in {"save", "import", "clean"} /\ CancelledPrompt(last'))
        => /\ last'.outcome = "cancelled"
           /\ registry' = registry
           /\ disk' = disk ]_vars

\* C3: whenever save, export, import or clean ends with a structural error,
\* the registry, all metadata and all storage directories are unchanged by
\* that invocation.
C3_StructuralErrorBeforeMutation ==
  [][ (last'.op \in {"save", "export", "import", "clean"}
         /\ last'.outcome \in StructuralErrors)
        => /\ registry' = registry
           /\ disk' = disk ]_vars

\* C4: for every save that completes, the files list of the metadata written
\* for the name is the lexicographically sorted sequence of the relative
\* paths that were copied into the storage directory.
C4_SavedManifestIsSortedCopiedSet ==
  (last.op = "save" /\ last.outcome = "ok")
    => loadTemplateMetadata(disk, last.name).files = SortPaths(last.copied)

\* The files of a storage directory other than its own brick.json.
TemplateFiles(dir) == {e \in dir.files : e.path # BrickJson}

\* C5: exporting a local template and then importing the produced archive
\* under a fresh name yields a template whose files manifest is identical to
\* the exported template's and whose storage directory holds an identical
\* copy of every exported file.
C5_ExportImportRoundTrip ==
  (last.op = "import" /\ last.outcome = "ok" /\ last.from # None /\ last.fresh)
    => /\ loadTemplateMetadata(disk, last.name).files
            = loadTemplateMetadata(disk, last.from).files
       /\ \A e \in TemplateFiles(disk[last.from]) : e \in disk[last.name].files

\* Reached: an archive just exported from a template with a nested file
\* was imported under a name that was not registered.
C5_Witness ==
  /\ last.op = "import" /\ last.outcome = "ok" /\ last.from # None /\ last.fresh
  /\ \E e \in TemplateFiles(disk[last.from]) : Len(e.path) > 1

\* C6: save onto a name that already exists replaces the template only if
\* the overwrite confirmation returned true; on "no" or cancel the existing
\* storage directory, metadata and registry entry are unchanged and no file
\* is copied.
C6_SaveOverwriteNeedsConfirmation ==
  [][ (/\ last'.op = "save"
       /\ templateExists(registry, last'.name)
       /\ ~Asked(last', "overwrite", "yes"))
        => /\ registry' = registry
           /\ disk' = disk
           /\ last'.copied = {} ]_vars

\* Reached: a save onto a registered local template whose overwrite
\* confirmation was answered no.
C6_Witness ==
  /\ last.op = "save"
  /\ last.asked = <<Ask("overwrite", "no")>>
  /\ last.outcome = "cancelled"
  /\ last.name \in LocalNames

\* C7: import replaces an existing template only when force is set or the
\* user confirmed overwrite; when the user declines and supplies a new name,
\* the archive is installed under that name and no template that was
\* already registered is overwritten or replaced.
C7_ImportNeverReplacesUnconfirmed ==
  [][ (last'.op = "import" /\ last'.outcome = "ok")
        => /\ templateExists(registry, last'.name)
                => (last'.force \/ Asked(last', "overwrite", "yes"))
           /\ (\E i \in 1..Len(last'.asked) : last'.asked[i].prompt = "newName")
                => \A n \in RegistryNames(registry) :
                     /\ getTemplate(registry', n) = getTemplate(registry, n)
                     /\ disk'[n] = disk[n] ]_vars

\* C8: export of a template whose registry type is remote fails with the
\* unsupported-type error and creates no output file and no output
\* directory.
C8_ExportRemoteRejected ==
  [][ (/\ last'.op = "export"
       /\ last'.name # None
       /\ getTemplate(registry, last'.name).type = "remote")
        => /\ last'.outcome = "unsupported_type"
           /\ cwd' = cwd ]_vars

\* Reached: an export that named a remote template.
C8_Witness ==
  /\ last.op = "export"
  /\ last.name # None
  /\ getTemplate(registry, last.name).type = "remote"

\* C9: import of an archive that has no brick.json at its root fails with
\* the invalid-archive error, and no registry entry, metadata or storage
\* directory is created or changed for any name.
C9_ImportWithoutBrickJsonRejected ==
  [][ (/\ last'.op = "import"
       /\ initialized
       /\ HasFile(cwd.files, last'.file)
       /\ ~HasFile(ContentAt(cwd.files, last'.file).entries, BrickJson))
        => /\ last'.outcome = "invalid_archive"
           /\ registry' = registry
           /\ disk' = disk ]_vars

\* Reached: an import, on an initialized store with registered templates,
\* of an archive file that has entries but no brick.json.
C9_Witness ==
  /\ last.op = "import"
  /\ initialized
  /\ Registered # {}
  /\ HasFile(cwd.files, last.file)
  /\ ContentAt(cwd.files, last.file).entries # {}
  /\ ~HasFile(ContentAt(cwd.files, last.file).entries, BrickJson)

\* C10: the archive produced by export contains exactly one brick.json entry
\* at the archive root, holding the template's loaded metadata; every other
\* entry lies under template/; the template/ entries are the files on disk
\* in the storage directory except the template's own brick.json, whether
\* or not they agree with the files manifest.
C10_ArchiveShape ==
  (last.op = "export" /\ last.outcome = "ok")
    => LET entries == ContentAt(cwd.files, last.file).entries
           root    == {e \in entries : Len(e.path) = 1}
       IN /\ root = {File(BrickJson, Json(loadTemplateMetadata(disk, last.name)))}
          /\ \A e \in entries \ root : e.path[1] = "template"
          /\ {File(Tail(e.path), e.content) : e \in entries \ root}
               = TemplateFiles(disk[last.name])

\* Reached: an export of a template whose manifest lists a path that is not
\* among the files packed under template/ (the manifest lists brick.json).
C10_Witness ==
  /\ last.op = "export" /\ last.outcome = "ok"
  /\ Range(loadTemplateMetadata(disk, last.name).files)
       # Paths(TemplateFiles(disk[last.name]))

\* C11: after any sequence of save and import invocations, every name
\* written to the registry or to a metadata record matches [A-Za-z0-9_-]+,
\* whether it came from the save argument, from import's --name or from the
\* name field of an imported archive.
C11_WrittenNamesMatchPattern ==
  /\ \A n \in Registered : MatchesNamePattern(n)
  /\ \A n \in AllNames :
       loadTemplateMetadata(disk, n) # NullMetadata
         => MatchesNamePattern(loadTemplateMetadata(disk, n).name)

\* C12: after any sequence of save and import invocations, including ones
\* that fail part-way through copying files, no name whose registry entry
\* has type remote has a storage directory or files under the template root.
C12_RemoteHasNoStorage ==
  \A n \in Registered :
    getTemplate(registry, n).type = "remote"
      => ~disk[n].exists /\ disk[n].files = {}

\* C16: during save, a failure to copy one file does not abort the batch:
\* the remaining files of the list are still copied, and the metadata and
\* the registry entry are still written.
C16_SaveCopyFailureDoesNotAbort ==
  [][ (/\ last'.op = "save"
       /\ last'.failAt # 0
       /\ last'.outcome \notin {"not_initialized", "cancelled"})
        => LET files == getFilesRecursive(SourceTree("proj"))
           IN /\ \A i \in 1..Len(files) :
                   i # last'.failAt => HasFile(disk'[last'.name].files, files[i])
              /\ loadTemplateMetadata(disk', last'.name) # NullMetadata
              /\ getTemplate(registry', last'.name).type = "local"
              /\ getTemplate(registry', last'.name).updatedAt = now ]_vars

\* C13: for a template that already exists, clean and import never change
\* the createdAt recorded in its metadata, and every operation that
\* rewrites the metadata (a completed save, import or clean) sets updatedAt
\* to the time of that operation.
C13_CreatedAtKeptUpdatedAtSet ==
  [][ /\ (/\ last'.op \in {"clean", "import"}
          /\ last'.name \in AllNames
          /\ loadTemplateMetadata(disk, last'.name) # NullMetadata
          /\ loadTemplateMetadata(disk', last'.name) # NullMetadata)
           => loadTemplateMetadata(disk', last'.name).createdAt
                = loadTemplateMetadata(disk, last'.name).createdAt
      /\ (last'.op \in {"save", "import", "clean"} /\ last'.outcome = "ok")
           => loadTemplateMetadata(disk', last'.name).updatedAt = now ]_vars

\* C14: the registry entry and the metadata of a local template are updated
\* together: after every completed save, import or clean, the updatedAt and
\* the createdAt of the registry entry equal those of the template's
\* metadata.
C14_RegistryAndMetadataTimestampsAgree ==
  [][ (last'.op \in {"save", "import", "clean"} /\ last'.outcome = "ok")
        => /\ getTemplate(registry', last'.name).updatedAt
                = loadTemplateMetadata(disk', last'.name).updatedAt
           /\ getTemplate(registry', last'.name).createdAt
                = loadTemplateMetadata(disk', last'.name).createdAt ]_vars

\* C15: every registry entry of type local written by save or by import
\* stores the template's path as the relative path templates/<name>, never
\* an absolute path.
C15_LocalEntryPathIsRelative ==
  \A n \in LocalNames : getTemplate(registry, n).path = <<"templates", n>>

\* C17: after every completed save, the files manifest enumerates exactly
\* the non-metadata files present in the template's storage directory: it
\* never lists brick.json, and no file other than brick.json is in the
\* directory without being listed.
C17_ManifestEnumeratesStoredFiles ==
  (last.op = "save" /\ last.outcome = "ok")
    => LET manifest == Range(loadTemplateMetadata(disk, last.name).files)
       IN /\ BrickJson \notin manifest
          /\ manifest = Paths(TemplateFiles(disk[last.name]))

\* C18: save never creates, modifies or deletes a file under its source
\* directory, also when the source path is the storage directory of a
\* template, the one being overwritten included.
C18_SaveLeavesSourceUntouched ==
  [][ (last'.op = "save" /\ last'.from # None)
        => disk'[last'.from] = disk[last'.from] ]_vars

\* C19: clean never adds or removes a file: after any clean invocation the
\* files manifest of every template and the set of file paths present in
\* every storage directory are the same as before.
C19_CleanKeepsFileSet ==
  [][ last'.op = "clean"
        => \A n \in AllNames :
             /\ disk'[n].exists = disk[n].exists
             /\ Paths(disk'[n].files) = Paths(disk[n].files)
             /\ \/ /\ loadTemplateMetadata(disk, n) = NullMetadata
                   /\ loadTemplateMetadata(disk', n) = NullMetadata
                \/ /\ loadTemplateMetadata(disk, n) # NullMetadata
                   /\ loadTemplateMetadata(disk', n) # NullMetadata
                   /\ loadTemplateMetadata(disk', n).files
                        = loadTemplateMetadata(disk, n).files ]_vars

\* Reached: a confirmed clean that removed every line of a file, which
\* stays in the storage directory as an empty file.
C19_Witness ==
  /\ last.op = "clean" /\ last.outcome = "ok"
  /\ \E e \in TemplateFiles(disk[last.name]) : e.content = Text(<<"">>)

\* C20: clean on a template whose registry type is remote fails with the
\* error for remote templates and changes no file, no metadata and no
\* registry entry.
C20_CleanRemoteRejected ==
  [][ (/\ last'.op = "clean"
       /\ last'.name # None
       /\ getTemplate(registry, last'.name).type = "remote")
        => /\ last'.outcome = "unsupported_type"
           /\ registry' = registry
           /\ disk' = disk ]_vars

\* Reached: a clean that named the remote template, on a store that also
\* holds a local template with lines to remove.
C20_Witness ==
  /\ last.op = "clean"
  /\ last.name = "rem"
  /\ getTemplate(registry, "rem").type = "remote"
  /\ LocalNames # {}

\* C21: after an overwrite (a completed save with confirmed overwrite, a
\* completed import with force or confirmed overwrite) the storage directory
\* of the name contains only files of the new template plus brick.json: no
\* file of the previous template survives unless the new template has it.
C21_OverwriteLeavesNoOldFiles ==
  [][ (/\ last'.op \in {"save", "import"}
       /\ last'.outcome = "ok"
       /\ templateExists(registry, last'.name)
       /\ (last'.force \/ Asked(last', "overwrite", "yes")))
        => Paths(TemplateFiles(disk'[last'.name])) \subseteq last'.copied ]_vars

\* Reached: t1, saved from a directory with api/a.ts, was overwritten by a
\* template without that file.
C21_Witness ==
  /\ last.op \in {"save", "import"}
  /\ last.outcome = "ok"
  /\ last.name = "t1"
  /\ (last.force \/ Asked(last, "overwrite", "yes"))
  /\ <<"api", "a.ts">> \notin last.copied

\* The name field of the brick.json inside the archive the last import read.
ArchiveName(l) ==
  ContentAt(ContentAt(cwd.files, l.file).entries, BrickJson).md.name

\* The text typed at the prompt for a new name, None when it was not shown.
TypedName(l) ==
  IF \E i \in 1..Len(l.asked) : l.asked[i].prompt = "newName"
  THEN (CHOOSE a \in Range(l.asked) : a.prompt = "newName").answer
  ELSE None

\* C22 as stated: the name under which import installs a template is the
\* --name override when given, otherwise the name in the archive's
\* brick.json; the name field of the saved metadata equals the registry key
\* under which the entry is added.
C22_ImportNameOverrideFirst ==
  [][ (last'.op = "import" /\ last'.outcome = "ok")
        => /\ last'.name = (IF last'.override # None THEN last'.override
                             ELSE ArchiveName(last'))
           /\ templateExists(registry', last'.name)
           /\ loadTemplateMetadata(disk', last'.name).name = last'.name ]_vars

\* C22 amended: the name under which import installs a template is the name
\* typed at the rename prompt when that prompt was answered, otherwise the
\* --name override when given, otherwise the name in the archive's
\* brick.json; the name field of the saved metadata equals the registry key
\* under which the entry is added.
C22_ImportNamePrecedence ==
  [][ (last'.op = "import" /\ last'.outcome = "ok")
        => /\ last'.name = (IF TypedName(last') # None THEN TypedName(last')
                             ELSE IF last'.override # None THEN last'.override
                             ELSE ArchiveName(last'))
           /\ templateExists(registry', last'.name)
           /\ loadTemplateMetadata(disk', last'.name).name = last'.name ]_vars

\* Reached: an import given --name, whose name was taken, installed under a
\* different name typed at the rename prompt.
C22_Witness ==
  /\ last.op = "import" /\ last.outcome = "ok"
  /\ last.override # None
  /\ TypedName(last) \notin {None, last.override}
  /\ last.name # ArchiveName(last)

\* C23: in save and in import the metadata record is written before the
\* registry entry: in every state during and after an invocation that
\* creates a name not registered before, the registry contains that name
\* only if its storage directory and brick.json exist.
C23_MetadataBeforeRegistry ==
  (/\ last.op \in {"save", "import"}
   /\ last.fresh
   /\ templateExists(registry, last.name))
    => /\ disk[last.name].exists
       /\ loadTemplateMetadata(disk, last.name) # NullMetadata

\* Reached: a state between two writes of an invocation, with brick.json
\* of the new name written and the name not yet registered.
C23_Witness ==
  /\ last.op \in {"save", "import"}
  /\ last.pending # <<>>
  /\ loadTemplateMetadata(disk, last.name) # NullMetadata
  /\ ~templateExists(registry, last.name)

\* C24: clean with dryRun set writes no file, does not prompt for
\* confirmation and does not change the metadata (updatedAt included),
\* whatever the analysis finds.
C24_DryRunChangesNothing ==
  [][ (last'.op = "clean" /\ last'.options.dryRun)
        => /\ disk' = disk
           /\ registry' = registry
           /\ last'.asked = <<>> ]_vars

\* Reached: a dry run on a local template in which the analysis found lines
\* to remove.
C24_Witness ==
  /\ last.op = "clean"
  /\ last.options.dryRun
  /\ last.outcome = "dry_run"
  /\ last.name \in LocalNames

\* C25: a confirmed clean rewrites only files that are listed in the
\* manifest and in which the analysis counted at least one removable line;
\* every other file in the storage directories is the same afterwards, and
\* when the analysis finds nothing to remove neither a file nor the metadata
\* is written.
C25_CleanRewritesOnlyCountedFiles ==
  [][ last'.op = "clean"
        => /\ \A n \in AllNames :
                \A e \in TemplateFiles(disk[n]) :
                  e \notin disk'[n].files
                    => /\ n = last'.name
                       /\ last'.outcome = "ok"
                       /\ e.path \in Range(loadTemplateMetadata(disk, n).files)
                       /\ e.content.kind = "text"
                       /\ \E i \in 1..Len(e.content.lines) :
                            ShouldRemove(e.content.lines[i],
                                         ExtName(e.path[Len(e.path)]),
                                         last'.options.pattern,
                                         last'.options.keepExternal)
           /\ last'.outcome = "already_clean" => disk' = disk ]_vars

\* Reached: a confirmed clean without custom pattern of the template saved
\* from proj: b.ts lost its relative import, api/a.ts, which has none, is
\* as it was.
C25_Witness ==
  /\ last.op = "clean" /\ last.outcome = "ok"
  /\ last.options.pattern = None
  /\ File(<<"b.ts">>, Text(<<CodeLine>>)) \in disk[last.name].files
  /\ File(<<"api", "a.ts">>, Text(<<PkgImportLine, CodeLine>>)) \in disk[last.name].files


\* C26: cleanFileContent applied to its own output removes zero lines and
\* returns that output unchanged, for every content, extension, custom
\* pattern and keepExternal value.
C26_CleanFileContentIdempotent ==
  [][ last.op = "cleanFileContent"
        => /\ last'.removed = 0
           /\ last'.content = last.content ]_vars

\* C27: whenever an import has returned or exited, by whichever way, the
\* temporary extraction directory it created does not exist any more, nor
\* any file below it.
C27_TempDirRemovedOnExit ==
  \A p \in DOMAIN last.running :
    (last.running[p].pc = "done" /\ last.running[p].tempDir # <<>>)
      => /\ last.running[p].tempDir \notin cwd.dirs
         /\ TempContents(cwd, last.running[p].tempDir) = {}

C27_Witness ==
  /\ DOMAIN last.running = {1}
  /\ last.running[1].pc = "done"
  /\ last.running[1].tempDir # <<>>
  /\ last.running[1].outcome = "copy_failed"

\* C28: two imports running at the same time from the same working
\* directory never have the same temporary extraction directory.
C28_ConcurrentImportsDisjointTempDirs ==
  \A p, q \in DOMAIN last.running :
    (/\ p # q
     /\ last.running[p].pc \in {"extract", "install", "cleanup"}
     /\ last.running[q].pc \in {"extract", "install", "cleanup"})
      => last.running[p].tempDir # last.running[q].tempDir

\* C29: init on initialized storage does not call initializeStorage and
\* leaves the registry and all templates as they are; initializeStorage is
\* called only when storage is not initialized.
C29_InitIdempotent ==
  [][ last'.op = "init"
        => /\ initialized
                => /\ last'.outcome = "already_initialized"
                   /\ initialized'
                   /\ registry' = registry
                   /\ disk' = disk
                   /\ cwd' = cwd
           /\ last'.outcome = "ok"
                => /\ ~initialized
                   /\ [initialized |-> initialized', registry |-> registry',
                       disk |-> disk', cwd |-> cwd'] = initializeStorage(St) ]_vars

C29_Witness ==
  /\ last.op = "init"
  /\ last.outcome = "already_initialized"
  /\ "t1" \in LocalNames
  /\ disk["t1"].exists

\* C30: getFilesRecursive returns, in ascending string order of the relative
\* path and without duplicates, exactly the files of the tree that are not
\* named brick.json, whose name does not start with a dot, and that have no
\* directory above them, at any depth, whose name starts with a dot or is
\* node_modules or __pycache__.
C30_GetFilesRecursiveListsVisibleFilesSorted ==
  last.op = "getFilesRecursive"
    => /\ Range(last.listed) =
            { p \in Paths(cwd.files) :
                /\ p[Len(p)] # "brick.json"
                /\ ~StartsWithDot(p[Len(p)])
                /\ \A i \in 1..(Len(p) - 1) :
                     /\ ~StartsWithDot(p[i])
                     /\ p[i] # "node_modules"
                     /\ p[i] # "__pycache__" }
       /\ \A i, j \in 1..Len(last.listed) :
            i < j => PathLess(last.listed[i], last.listed[j])

C30_Witness ==
  /\ last.op = "getFilesRecursive"
  /\ Paths(cwd.files) = TreePaths
  /\ last.listed = << <<"a.ts">>, <<"api", "a.ts">>, <<"b.ts">> >>

====
